---- MODULE Spec2Model ----
(***************************************************************************)
(* Model of thinfilm2.hh: the 2x2 complex matrix type Matrix22 and the     *)
(* transfer-matrix routine simulate.                                       *)
(*                                                                         *)
(* Numbers.  A double is modelled by an exact rational <<n, d>> in lowest  *)
(* terms with d > 0.  The pair <<0, 0>> (NonFinite) stands for the outcome *)
(* of arithmetic that divided by zero: the IEEE value it has in the        *)
(* program (an infinity, a NaN, or something computed from one) is not     *)
(* tracked, and every operation on it yields it again.  Rounding is not    *)
(* modelled: every finite value is the exact real result.                  *)
(* A std::complex<double> is a record [re, im] of two such numbers.        *)
(***************************************************************************)
EXTENDS Integers, Sequences, FiniteSets, TLC

(***************************************************************************)
(* Bounds of the model                                                     *)
(***************************************************************************)
MaxLayers == 2
NCalls == 2
MaxOps == 1
MaxEntry == 8

(***************************************************************************)
(* double                                                                  *)
(***************************************************************************)
\* An operator binds its operands once (a \in {x}) before it uses them, so
\* that an operand that is itself an expression is evaluated once.
IAbs(n) == IF n < 0 THEN -n ELSE n

RECURSIVE GCD(_, _)
GCD(a, b) == IF b = 0 THEN a ELSE GCD(b, a % b)

NonFinite == <<0, 0>>

IsFinite(x) == x[2] # 0

\* the rational n/d in lowest terms; a zero denominator is a division by zero
Rat(n, d) ==
  CHOOSE r \in
    { IF q = 0 THEN NonFinite
      ELSE LET g == GCD(IAbs(p), IAbs(q))
           IN IF q < 0 THEN <<(-p) \div g, (-q) \div g>>
              ELSE <<p \div g, q \div g>> :
      p \in {n}, q \in {d} } : TRUE

R(n) == <<n, 1>>

\* x + y; common factors are cancelled before the multiplications, to keep
\* the intermediate integers small
RAdd(x, y) ==
  CHOOSE r \in
    { IF a[2] = 1 /\ b[2] = 1 THEN <<a[1] + b[1], 1>>
      ELSE IF a[2] = 0 \/ b[2] = 0 THEN NonFinite
      ELSE LET g == GCD(a[2], b[2])
           IN Rat(a[1] * (b[2] \div g) + b[1] * (a[2] \div g),
                  (a[2] \div g) * b[2]) :
      a \in {x}, b \in {y} } : TRUE

\* -x
RNeg(x) ==
  CHOOSE r \in {IF a[2] = 0 THEN NonFinite ELSE <<-a[1], a[2]>> : a \in {x}} :
    TRUE

\* x - y
RSub(x, y) == RAdd(x, RNeg(y))

\* x * y
RMul(x, y) ==
  CHOOSE r \in
    { IF a[2] = 1 /\ b[2] = 1 THEN <<a[1] * b[1], 1>>
      ELSE IF a[2] = 0 \/ b[2] = 0 THEN NonFinite
      ELSE LET g == GCD(IAbs(a[1]), b[2])
               h == GCD(IAbs(b[1]), a[2])
           IN Rat((a[1] \div g) * (b[1] \div h),
                  (a[2] \div h) * (b[2] \div g)) :
      a \in {x}, b \in {y} } : TRUE

\* x / y; a division by zero is not finite
RDiv(x, y) ==
  CHOOSE r \in
    { IF b[1] = 0 THEN NonFinite
      ELSE RMul(a, IF b[1] < 0 THEN <<-b[2], -b[1]>> ELSE <<b[2], b[1]>>) :
      a \in {x}, b \in {y} } : TRUE

\* the root of a perfect square (the inputs of the model keep every
\* radicand a perfect square; CHOOSE has no value otherwise)
ISqrt(n) == CHOOSE k \in 0..n : k * k = n

\* std::sqrt(double) of a non-negative rational square
RSqrt(x) ==
  CHOOSE r \in
    { IF a[2] = 0 THEN NonFinite ELSE <<ISqrt(a[1]), ISqrt(a[2])>> :
      a \in {x} } : TRUE

(***************************************************************************)
(* std::complex<double>                                                    *)
(***************************************************************************)
\* the complex number re + i im; a part that is not finite makes both so
Cx(re, im) ==
  CHOOSE r \in
    { IF a[2] # 0 /\ b[2] # 0 THEN [re |-> a, im |-> b]
      ELSE [re |-> NonFinite, im |-> NonFinite] :
      a \in {re}, b \in {im} } : TRUE

C(a, b) == Cx(R(a), R(b))

CNonFinite == Cx(NonFinite, NonFinite)

CIsFinite(z) == IsFinite(z.re) /\ IsFinite(z.im)

zero == C(0, 0)
one == C(1, 0)
onei == C(0, 1)

\* z + w
CAdd(z, w) ==
  CHOOSE r \in
    { Cx(RAdd(a.re, b.re), RAdd(a.im, b.im)) : a \in {z}, b \in {w} } : TRUE

\* z - w
CSub(z, w) ==
  CHOOSE r \in
    { Cx(RSub(a.re, b.re), RSub(a.im, b.im)) : a \in {z}, b \in {w} } : TRUE

\* z * w
CMul(z, w) ==
  CHOOSE r \in
    { Cx(RSub(RMul(a.re, b.re), RMul(a.im, b.im)),
         RAdd(RMul(a.re, b.im), RMul(a.im, b.re))) :
      a \in {z}, b \in {w} } : TRUE

\* |z|^2, std::norm
CNorm(z) ==
  CHOOSE r \in {RAdd(RMul(a.re, a.re), RMul(a.im, a.im)) : a \in {z}} : TRUE

\* z / w = z conj(w) / |w|^2
CDiv(z, w) ==
  CHOOSE r \in
    { Cx(RDiv(RAdd(RMul(a.re, b.re), RMul(a.im, b.im)), n),
         RDiv(RSub(RMul(a.im, b.re), RMul(a.re, b.im)), n)) :
      a \in {z}, b \in {w}, n \in {CNorm(w)} } : TRUE

\* std::sqrt(complex), principal branch, on the operands the model uses:
\* a real non-negative square
CSqrt(z) ==
  CHOOSE r \in
    { IF ~CIsFinite(a) THEN CNonFinite
      ELSE CHOOSE w \in {Cx(RSqrt(a.re), R(0))} :
             a.im = R(0) /\ a.re[1] >= 0 :
      a \in {z} } : TRUE

(***************************************************************************)
(* State                                                                   *)
(***************************************************************************)
VARIABLES
  objs,     \* the Matrix22 objects of a caller, by object identity
  last,     \* the last matrix operation: operands, objects before, result
  nops,     \* number of in-place products done so far
  args,     \* args[c]: the by-value arguments of invocation c of simulate
  ptr,      \* ptr[c]: the output pointers of invocation c that are not null
  pc,       \* pc[c]: position of invocation c in simulate
  frame,    \* frame[c]: the local variables of invocation c
  mem,      \* mem[c]: the doubles the output pointers of invocation c address
  written,  \* written[c]: the outputs invocation c has stored to
  stderr,   \* the diagnostic channel: invocations that printed the warning
  used      \* used[c]: indices of the layers multiplied in, in order

matVars == <<objs, last, nops>>
simVars == <<args, ptr, pc, frame, mem, written, stderr, used>>
vars == <<objs, last, nops, args, ptr, pc, frame, mem, written, stderr, used>>

(***************************************************************************)
(* Matrix22                                                                *)
(***************************************************************************)
Matrix22(m11, m12, m21, m22) ==
  [m11 |-> m11, m12 |-> m12, m21 |-> m21, m22 |-> m22]

Identity == Matrix22(one, zero, zero, one)

\* as MulAssign, with m12 computed from b.m21 where b.m22 is meant
MulAssignWrongTerm(h, a, b) ==
  LET A == h[a]
      B == h[b]
  IN [h EXCEPT ![a] =
        [ m11 |-> CAdd(CMul(A.m11, B.m11), CMul(A.m12, B.m21)),
          m12 |-> CAdd(CMul(A.m11, B.m12), CMul(A.m12, B.m21)),
          m21 |-> CAdd(CMul(A.m21, B.m11), CMul(A.m22, B.m21)),
          m22 |-> CAdd(CMul(A.m21, B.m12), CMul(A.m22, B.m22)) ]]

\* as MulAssign, without the temporary x: m11 and m21 are assigned before
\* m12 and m22 are computed from them
MulAssignNoTemp(h, a, b) ==
  LET A == h[a]
      B == h[b]
      n11 == CAdd(CMul(A.m11, B.m11), CMul(A.m12, B.m21))
      n21 == CAdd(CMul(A.m21, B.m11), CMul(A.m22, B.m21))
  IN [h EXCEPT ![a] =
        [ m11 |-> n11,
          m12 |-> CAdd(CMul(n11, B.m12), CMul(A.m12, B.m22)),
          m21 |-> n21,
          m22 |-> CAdd(CMul(n21, B.m12), CMul(A.m22, B.m22)) ]]

\* as MulAssign, with the operands of the product exchanged: a = b * a
MulAssignLeft(h, a, b) ==
  LET A == h[a]
      B == h[b]
  IN [h EXCEPT ![a] =
        [ m11 |-> CAdd(CMul(B.m11, A.m11), CMul(B.m12, A.m21)),
          m12 |-> CAdd(CMul(B.m11, A.m12), CMul(B.m12, A.m22)),
          m21 |-> CAdd(CMul(B.m21, A.m11), CMul(B.m22, A.m21)),
          m22 |-> CAdd(CMul(B.m21, A.m12), CMul(B.m22, A.m22)) ]]

\* Matrix22::operator*= executed on the objects of h: a is *this and b the
\* object the reference parameter is bound to.  A statement takes the
\* objects and the local x as they are when it runs, so every read of
\* b.m?? goes to the object as it is at that point.
\*   complex x = m11 * b.m11 + m12 * b.m21;
MulStmt1(st, a, b) ==
  [st EXCEPT !.x = CAdd(CMul(st.h[a].m11, st.h[b].m11),
                        CMul(st.h[a].m12, st.h[b].m21))]

\*   m12 = m11 * b.m12 + m12 * b.m22;
MulStmt2(st, a, b) ==
  [st EXCEPT !.h[a].m12 = CAdd(CMul(st.h[a].m11, st.h[b].m12),
                               CMul(st.h[a].m12, st.h[b].m22))]

\*   m11 = x;
MulStmt3(st, a, b) == [st EXCEPT !.h[a].m11 = st.x]

\*   x = m21 * b.m11 + m22 * b.m21;
MulStmt4(st, a, b) ==
  [st EXCEPT !.x = CAdd(CMul(st.h[a].m21, st.h[b].m11),
                        CMul(st.h[a].m22, st.h[b].m21))]

\*   m22 = m21 * b.m12 + m22 * b.m22;
MulStmt5(st, a, b) ==
  [st EXCEPT !.h[a].m22 = CAdd(CMul(st.h[a].m21, st.h[b].m12),
                               CMul(st.h[a].m22, st.h[b].m22))]

\*   m21 = x;
MulStmt6(st, a, b) == [st EXCEPT !.h[a].m21 = st.x]

\* the objects after  h[a] *= h[b]: the six statements in program order
MulAssign(h, a, b) ==
  CHOOSE r \in
    { MulStmt6(s5, a, b).h :
        s5 \in { MulStmt5(s4, a, b) :
          s4 \in { MulStmt4(s3, a, b) :
            s3 \in { MulStmt3(s2, a, b) :
              s2 \in { MulStmt2(s1, a, b) :
                s1 \in { MulStmt1([h |-> h, x |-> zero], a, b) } } } } } } :
      TRUE

\* operator*(Matrix22 a, const Matrix22& b): the parameter a is a fresh copy
\* of the caller's left operand, b refers to the caller's right operand;
\* the value returned is that of a after a *= b
Times(A, B) ==
  LET h == [o \in {"a", "b"} |-> IF o = "a" THEN A ELSE B]
  IN MulAssign(h, "a", "b")["a"]

\* the objects of the caller: three matrices
ObjIds == {1, 2, 3}

\* matrices a caller may hold
MatSet ==
  { Matrix22(zero, one, one, zero),
    Matrix22(one, onei, zero, one),
    Matrix22(Cx(Rat(1, 2), R(0)), onei, C(2, -1), C(3, 0)) }

NoOp == [op |-> "none", a |-> 1, b |-> 1, pre |-> [o \in ObjIds |-> Identity],
         ret |-> Identity]

\* the entries of M are made of integers of magnitude at most MaxEntry
SmallMatrix(M) ==
  \A e \in {M.m11, M.m12, M.m21, M.m22} :
    \A x \in {e.re, e.im} : IAbs(x[1]) <= MaxEntry /\ x[2] <= MaxEntry

\* a caller executes  objs[a] *= objs[b]  (a and b may be the same object);
\* the model follows the caller while the entries stay small
MatMulAssign(a, b) ==
  /\ nops < MaxOps
  /\ objs' = MulAssign(objs, a, b)
  /\ SmallMatrix(objs'[a])
  /\ last' = [op |-> "*=", a |-> a, b |-> b, pre |-> objs, ret |-> objs'[a]]
  /\ nops' = nops + 1
  /\ UNCHANGED simVars

\* a caller evaluates  objs[a] * objs[b]
MatTimes(a, b) ==
  /\ objs' = objs
  /\ last' = [op |-> "*", a |-> a, b |-> b, pre |-> objs,
              ret |-> Times(objs[a], objs[b])]
  /\ nops' = nops
  /\ UNCHANGED simVars

(***************************************************************************)
(* cos, sin, atan2, arg                                                    *)
(***************************************************************************)
\* An angle is carried as its quotient by pi.  cos and sin are exact at
\* the multiples of pi/2, the only angles the inputs of the model produce
\* (CHOOSE has no value at any other finite angle).
QuarterTurns(q) ==
  CHOOSE k \in {q.re[1] * (2 \div q.re[2])} :
     q.im = R(0) /\ q.re[2] \in {1, 2}

\* cos(pi * q)
CCosPi(q) ==
  CHOOSE r \in
    { IF ~CIsFinite(a) THEN CNonFinite
      ELSE LET k == QuarterTurns(a) % 4
           IN IF k = 0 THEN C(1, 0) ELSE IF k = 2 THEN C(-1, 0) ELSE C(0, 0) :
      a \in {q} } : TRUE

\* sin(pi * q)
CSinPi(q) ==
  CHOOSE r \in
    { IF ~CIsFinite(a) THEN CNonFinite
      ELSE LET k == QuarterTurns(a) % 4
           IN IF k = 1 THEN C(1, 0) ELSE IF k = 3 THEN C(-1, 0) ELSE C(0, 0) :
      a \in {q} } : TRUE

\* polarization is carried in units of pi/4:
\*   polP = cos(polarization); polP *= polP
CosSquared(p) ==
  LET k == p % 4
  IN IF k = 0 THEN R(1) ELSE IF k = 2 THEN R(0) ELSE Rat(1, 2)

\*   polS = sin(polarization); polS *= polS
SinSquared(p) ==
  LET k == p % 4
  IN IF k = 0 THEN R(0) ELSE IF k = 2 THEN R(1) ELSE Rat(1, 2)

\* std::atan2(std::abs(z), std::abs(w)): an angle of [0, pi/2], carried as
\* the square of its tangent, |z|^2 / |w|^2; <<1, 0>> is the angle pi/2 and
\* atan2(0, 0) = 0
Atan2Abs(z, w) ==
  CHOOSE r \in
    { IF y[2] = 0 \/ x[2] = 0 THEN NonFinite
      ELSE IF x[1] = 0 THEN (IF y[1] = 0 THEN R(0) ELSE <<1, 0>>)
      ELSE RDiv(y, x) :
      y \in {CNorm(z)}, x \in {CNorm(w)} } : TRUE

\* std::arg(z): the angle of z, carried as the direction of z, the integer
\* vector <<x, y>> with coprime entries on the ray through z; arg(0) = 0
Arg(z) ==
  CHOOSE r \in
    { IF ~CIsFinite(a) THEN NonFinite
      ELSE LET x == a.re[1] * a.im[2]
               y == a.im[1] * a.re[2]
               g == GCD(IAbs(x), IAbs(y))
           IN IF g = 0 THEN <<1, 0>> ELSE <<x \div g, y \div g>> :
      a \in {z} } : TRUE

\* arg(z) - arg(w), carried as the pair of the two angles
ArgDifference(z, w) == <<Arg(z), Arg(w)>>

(***************************************************************************)
(* simulate                                                                *)
(***************************************************************************)
Calls == 1..NCalls

OutNames == {"reflectance", "transmittance", "absorptance", "psi", "delta"}

Layer(thickness, refractiveIndex) ==
  [thickness |-> thickness, refractiveIndex |-> refractiveIndex]

\* as FrameOf, for locals with static storage: one copy for all invocations
FrameShared(c) == 1

\* the locals of simulate have automatic storage: every invocation has its
\* own copy
FrameOf(c) == c

\* as layersAmount, one short
layersAmountShort(a) == IF Len(a.layers) = 0 THEN 0 ELSE Len(a.layers) - 1

\* int layersAmount = layers.size()
layersAmount(a) == Len(a.layers)

\* c1 = sqrt(1 - (1 - c0^2) (n0/n1)^2)
SnellCos(squareIncidentCosTheta, ratio) ==
  CSqrt(CSub(one,
             CMul(CMul(CSub(one, squareIncidentCosTheta), ratio), ratio)))

\* the locals before the first statement of the body has run
NoFrame ==
  [ i |-> 0,
    admittanceIncidentP |-> zero, admittanceIncidentS |-> zero,
    squareIncidentCosTheta |-> zero, exitCosTheta |-> zero,
    admittanceExitP |-> zero, admittanceExitS |-> zero,
    productMatrixP |-> Matrix22(zero, zero, zero, zero),
    productMatrixS |-> Matrix22(zero, zero, zero, zero),
    layerMatrixP |-> Matrix22(zero, zero, zero, zero),
    layerMatrixS |-> Matrix22(zero, zero, zero, zero),
    bP |-> zero, cP |-> zero, bS |-> zero, cS |-> zero,
    reflectionCoefficientP |-> zero, reflectionCoefficientS |-> zero,
    polP |-> R(0), polS |-> R(0) ]

\* as InitialProduct, for product matrices declared without arguments
InitialProductUnset == Matrix22(zero, zero, zero, zero)

\* Matrix22 productMatrixP(1.0, 0.0, 0.0, 1.0), and the same for S
InitialProduct == Matrix22(one, zero, zero, one)

\* section 1.1 and the declarations of section 1.2
EnterFrame(a) ==
  LET squareIncidentCosTheta == CMul(a.incidentCosTheta, a.incidentCosTheta)
      ratioIncidentExit == CDiv(a.nIncident, a.nExit)
      exitCosTheta == SnellCos(squareIncidentCosTheta, ratioIncidentExit)
  IN [NoFrame EXCEPT
        !.admittanceIncidentP = CDiv(a.nIncident, a.incidentCosTheta),
        !.admittanceIncidentS = CMul(a.nIncident, a.incidentCosTheta),
        !.squareIncidentCosTheta = squareIncidentCosTheta,
        !.exitCosTheta = exitCosTheta,
        !.admittanceExitP = CDiv(a.nExit, exitCosTheta),
        !.admittanceExitS = CMul(a.nExit, exitCosTheta),
        !.productMatrixP = InitialProduct,
        !.productMatrixS = InitialProduct,
        !.i = 0]

\* the characteristic matrices of one layer, for P and for S
LayerMatrices(a, squareIncidentCosTheta, layer) ==
  LET ratio == CDiv(a.nIncident, layer.refractiveIndex)
      layerCosTheta == SnellCos(squareIncidentCosTheta, ratio)
      admittanceLayerP == CDiv(layer.refractiveIndex, layerCosTheta)
      admittanceLayerS == CMul(layer.refractiveIndex, layerCosTheta)
      \* deltaLayer / pi
      deltaLayer ==
        CDiv(CMul(CMul(CMul(C(-2, 0), layer.refractiveIndex),
                       Cx(layer.thickness, R(0))),
                  layerCosTheta),
             Cx(a.lambda, R(0)))
      c == CCosPi(deltaLayer)
      s == CMul(CSinPi(deltaLayer), onei)
  IN [ P |-> Matrix22(c, CDiv(s, admittanceLayerP),
                      CMul(s, admittanceLayerP), c),
       S |-> Matrix22(c, CDiv(s, admittanceLayerS),
                      CMul(s, admittanceLayerS), c) ]

\* b, c and the reflection coefficients, for P and for S
CoefficientsFrame(f) ==
  LET bP == CAdd(f.productMatrixP.m11,
                 CMul(f.productMatrixP.m12, f.admittanceExitP))
      cP == CAdd(f.productMatrixP.m21,
                 CMul(f.productMatrixP.m22, f.admittanceExitP))
      bS == CAdd(f.productMatrixS.m11,
                 CMul(f.productMatrixS.m12, f.admittanceExitS))
      cS == CAdd(f.productMatrixS.m21,
                 CMul(f.productMatrixS.m22, f.admittanceExitS))
  IN [f EXCEPT
        !.bP = bP, !.cP = cP, !.bS = bS, !.cS = cS,
        !.reflectionCoefficientP =
           CDiv(CSub(bP, CDiv(cP, f.admittanceIncidentP)),
                CAdd(bP, CDiv(cP, f.admittanceIncidentP))),
        !.reflectionCoefficientS =
           CDiv(CSub(bS, CDiv(cS, f.admittanceIncidentS)),
                CAdd(bS, CDiv(cS, f.admittanceIncidentS)))]

\* polP * reflectanceP + polS * reflectanceS
ReflectanceValue(f, polP, polS) ==
  RAdd(RMul(polP, CNorm(f.reflectionCoefficientP)),
       RMul(polS, CNorm(f.reflectionCoefficientS)))

\* polP * transmittanceP + polS * transmittanceS
TransmittanceValue(f, a) ==
  LET transmitionCoefficientP ==
        CDiv(CMul(CDiv(C(2, 0), CAdd(f.bP, CDiv(f.cP, f.admittanceIncidentP))),
                  a.incidentCosTheta),
             f.exitCosTheta)
      transmitionCoefficientS ==
        CDiv(C(2, 0), CAdd(f.bS, CDiv(f.cS, f.admittanceIncidentS)))
  IN RAdd(RMul(f.polP, CNorm(transmitionCoefficientP)),
          RMul(f.polS, CNorm(transmitionCoefficientS)))

\* as ReflectanceBranch, with the test of transmittance outside the block
\* of reflectance
ReflectanceBranchFlat(p) == IF "transmittance" \in p THEN "warn" ELSE "psi"

\* where control goes after the test  if (reflectance != 0)  and, inside
\* its block, the test  if (transmittance != 0)
ReflectanceBranch(p) ==
  IF "reflectance" \in p
  THEN (IF "transmittance" \in p THEN "warn" ELSE "psi")
  ELSE "psi"

\* as PsiDeltaRequested, with the block of psi and delta inside the block
\* of reflectance
PsiDeltaInsideReflectance(p) ==
  "psi" \in p /\ "delta" \in p /\ "reflectance" \in p

\* if (psi != 0 && delta != 0)
PsiDeltaRequested(p) == "psi" \in p /\ "delta" \in p

\* as IncidentAbsorbing, testing the index n where k is meant
IncidentAbsorbingReal(a) == a.nIncident.re # R(0)

\* imag(nIncident) != 0.0
IncidentAbsorbing(a) == a.nIncident.im # R(0)

\* *p = v
Store(c, name, v) ==
  /\ mem' = [mem EXCEPT ![c][name] = v]
  /\ written' = [written EXCEPT ![c] = @ \cup {name}]

\* lines 184-251: layersAmount, the admittances of the two media, the
\* product matrices set to the identity
Enter(c) ==
  /\ pc[c] = "call"
  /\ frame' = [frame EXCEPT ![FrameOf(c)] = EnterFrame(args[c])]
  /\ pc' = [pc EXCEPT ![c] = "loop"]
  /\ UNCHANGED <<args, ptr, mem, written, stderr, used>>
  /\ UNCHANGED matVars

\* lines 256-294: the loop test holds, the matrices of layers[i] are built
Build(c) ==
  LET f == frame[FrameOf(c)]
  IN /\ pc[c] = "loop"
     /\ f.i < layersAmount(args[c])
     /\ LET m == LayerMatrices(args[c], f.squareIncidentCosTheta,
                               args[c].layers[f.i + 1])
        IN frame' = [frame EXCEPT ![FrameOf(c)].layerMatrixP = m.P,
                                  ![FrameOf(c)].layerMatrixS = m.S]
     /\ pc' = [pc EXCEPT ![c] = "mul"]
     /\ UNCHANGED <<args, ptr, mem, written, stderr, used>>
     /\ UNCHANGED matVars

\* lines 300-302: the two products, then ++i
Multiply(c) ==
  LET f == frame[FrameOf(c)]
      g == MulAssign(MulAssign(f, "productMatrixP", "layerMatrixP"),
                     "productMatrixS", "layerMatrixS")
  IN /\ pc[c] = "mul"
     /\ frame' = [frame EXCEPT ![FrameOf(c)] = [g EXCEPT !.i = f.i + 1]]
     /\ used' = [used EXCEPT ![c] = Append(@, f.i + 1)]
     /\ pc' = [pc EXCEPT ![c] = "loop"]
     /\ UNCHANGED <<args, ptr, mem, written, stderr>>
     /\ UNCHANGED matVars

\* lines 256, 313-328: the loop test fails, b, c and the reflection
\* coefficients are computed
Coefficients(c) ==
  LET f == frame[FrameOf(c)]
  IN /\ pc[c] = "loop"
     /\ ~(f.i < layersAmount(args[c]))
     /\ frame' = [frame EXCEPT ![FrameOf(c)] = CoefficientsFrame(f)]
     /\ pc' = [pc EXCEPT ![c] = "refl"]
     /\ UNCHANGED <<args, ptr, mem, written, stderr, used>>
     /\ UNCHANGED matVars

\* lines 332-347: if (reflectance != 0) { ... *reflectance = ...;
\* if (transmittance != 0) ...
Reflectance(c) ==
  LET f == frame[FrameOf(c)]
      polP == CosSquared(args[c].polarization)
      polS == SinSquared(args[c].polarization)
  IN /\ pc[c] = "refl"
     /\ IF "reflectance" \in ptr[c]
        THEN /\ frame' = [frame EXCEPT ![FrameOf(c)].polP = polP,
                                       ![FrameOf(c)].polS = polS]
             /\ Store(c, "reflectance", ReflectanceValue(f, polP, polS))
        ELSE UNCHANGED <<frame, mem, written>>
     /\ pc' = [pc EXCEPT ![c] = ReflectanceBranch(ptr[c])]
     /\ UNCHANGED <<args, ptr, stderr, used>>
     /\ UNCHANGED matVars

\* lines 350-353: the warning
Warn(c) ==
  /\ pc[c] = "warn"
  /\ stderr' = IF IncidentAbsorbing(args[c]) THEN Append(stderr, c) ELSE stderr
  /\ pc' = [pc EXCEPT ![c] = "trans"]
  /\ UNCHANGED <<args, ptr, frame, mem, written, used>>
  /\ UNCHANGED matVars

\* lines 356-365: *transmittance = ...
Transmittance(c) ==
  /\ pc[c] = "trans"
  /\ Store(c, "transmittance", TransmittanceValue(frame[FrameOf(c)], args[c]))
  /\ pc' = [pc EXCEPT ![c] = "absorp"]
  /\ UNCHANGED <<args, ptr, frame, stderr, used>>
  /\ UNCHANGED matVars

\* lines 367-368: if (absorptance != 0)
\*   *absorptance = 1.0 - *reflectance - *transmittance;
Absorptance(c) ==
  /\ pc[c] = "absorp"
  /\ IF "absorptance" \in ptr[c]
     THEN Store(c, "absorptance",
                RSub(RSub(R(1), mem[c].reflectance), mem[c].transmittance))
     ELSE UNCHANGED <<mem, written>>
  /\ pc' = [pc EXCEPT ![c] = "psi"]
  /\ UNCHANGED <<args, ptr, frame, stderr, used>>
  /\ UNCHANGED matVars

\* lines 372-379: psi and delta, then the return
PsiDelta(c) ==
  LET f == frame[FrameOf(c)]
  IN /\ pc[c] = "psi"
     /\ IF PsiDeltaRequested(ptr[c])
        THEN /\ mem' = [mem EXCEPT
                  ![c].psi = Atan2Abs(f.reflectionCoefficientP,
                                      f.reflectionCoefficientS),
                  ![c].delta = ArgDifference(f.reflectionCoefficientP,
                                             f.reflectionCoefficientS)]
             /\ written' = [written EXCEPT ![c] = @ \cup {"psi", "delta"}]
        ELSE UNCHANGED <<mem, written>>
     /\ pc' = [pc EXCEPT ![c] = "done"]
     /\ UNCHANGED <<args, ptr, frame, stderr, used>>
     /\ UNCHANGED matVars

(***************************************************************************)
(* Inputs                                                                  *)
(***************************************************************************)
\* the sequences over pool of length at most n
SeqsUpTo(pool, n) == UNION {[1..k -> pool] : k \in 0..n}

Arguments(cosTheta, lambda, polarization, nIncident, nExit, layers) ==
  [ incidentCosTheta |-> cosTheta, lambda |-> lambda,
    polarization |-> polarization,
    nIncident |-> nIncident, nExit |-> nExit, layers |-> layers ]

\* angles of polarization, in units of pi/4: P, both, S
Polarizations == {0, 1, 2}

\* normal incidence, wavelength 12: quarter-wave layers of index 2 and
\* 3/2; transparent and absorbing incident media
NormalLayers ==
  { Layer(Rat(3, 2), C(2, 0)), Layer(R(2), Cx(Rat(3, 2), R(0))) }

NormalInputs ==
  { Arguments(C(1, 0), R(12), p, nI, nE, ls) :
      p \in {0, 1},
      nI \in {C(1, 0), C(1, -1)},
      nE \in {C(1, 0), Cx(Rat(3, 2), R(0))},
      ls \in SeqsUpTo(NormalLayers, MaxLayers) }

\* incidence at cos = 3/5 (and the cosine -3/5), wavelength 192:
\* quarter-wave layers of index 4/3 and 1
ObliqueLayers ==
  { Layer(R(45), Cx(Rat(4, 3), R(0))), Layer(R(80), C(1, 0)) }

ObliqueInputs ==
  { Arguments(Cx(Rat(co, 5), R(0)), R(192), p, C(1, 0), nE, ls) :
      co \in {3, -3},
      p \in Polarizations,
      nE \in {C(1, 0), Cx(Rat(4, 3), R(0))},
      ls \in SeqsUpTo(ObliqueLayers, 1) }

\* degenerate inputs: grazing incidence (cos = 0), wavelength 0, index 0
DegenerateInputs ==
  { Arguments(co, la, p, nI, C(1, 0), ls) :
      co \in {C(0, 0), C(1, 0)},
      la \in {R(0), R(12)},
      p \in {0, 2},
      nI \in {C(0, 0), C(1, 0)},
      ls \in SeqsUpTo({Layer(R(3), C(1, 0))}, 1) }

\* every combination of output pointers
AllRequests == SUBSET OutNames

\* combinations of output pointers that follow the dependency chain, and
\* some that do not
CoreRequests ==
  { {}, OutNames, {"reflectance"}, {"reflectance", "transmittance"},
    {"transmittance"}, {"transmittance", "absorptance"},
    {"psi", "delta"}, {"psi"} }

\* the calls of a single invocation
SimCalls ==
  (NormalInputs \X AllRequests)
    \cup ((ObliqueInputs \cup DegenerateInputs) \X CoreRequests)

\* the inputs of concurrent invocations
ConcInputs ==
  { Arguments(C(1, 0), R(12), 1, C(1, 0), Cx(Rat(3, 2), R(0)), <<>>),
    Arguments(C(1, 0), R(12), 1, C(1, -1), Cx(Rat(3, 2), R(0)),
              <<Layer(Rat(3, 2), C(2, 0))>>) }

ConcRequests == { OutNames, {"psi", "delta"} }

\* what the doubles addressed by the output pointers hold before the call:
\* values that no invocation stores
InitialMem ==
  [ reflectance |-> R(-7), transmittance |-> R(-7), absorptance |-> R(-7),
    psi |-> R(-7), delta |-> <<<<7, 7>>, <<7, 7>>>> ]

(***************************************************************************)
(* Specifications                                                          *)
(***************************************************************************)
InitMatIdle ==
  /\ objs = [o \in ObjIds |-> Identity]
  /\ last = NoOp
  /\ nops = 0

InitSimIdle ==
  /\ args = [c \in Calls |-> Arguments(C(1, 0), R(12), 0, one, one, <<>>)]
  /\ ptr = [c \in Calls |-> {}]
  /\ pc = [c \in Calls |-> "off"]
  /\ frame = [c \in Calls |-> NoFrame]
  /\ mem = [c \in Calls |-> InitialMem]
  /\ written = [c \in Calls |-> {}]
  /\ stderr = <<>>
  /\ used = [c \in Calls |-> <<>>]

\* one invocation of simulate, on any input and any request
InitOne ==
  /\ InitMatIdle
  /\ \E call \in SimCalls :
       /\ args = [c \in Calls |->
                    IF c = 1 THEN call[1]
                    ELSE Arguments(C(1, 0), R(12), 0, one, one, <<>>)]
       /\ ptr = [c \in Calls |-> IF c = 1 THEN call[2] ELSE {}]
  /\ pc = [c \in Calls |-> IF c = 1 THEN "call" ELSE "off"]
  /\ frame = [c \in Calls |-> NoFrame]
  /\ mem = [c \in Calls |-> InitialMem]
  /\ written = [c \in Calls |-> {}]
  /\ stderr = <<>>
  /\ used = [c \in Calls |-> <<>>]

\* concurrent invocations, each with its own arguments and output locations
InitConc ==
  /\ InitMatIdle
  /\ args \in [Calls -> ConcInputs]
  /\ ptr \in [Calls -> ConcRequests]
  /\ pc = [c \in Calls |-> "call"]
  /\ frame = [c \in Calls |-> NoFrame]
  /\ mem = [c \in Calls |-> InitialMem]
  /\ written = [c \in Calls |-> {}]
  /\ stderr = <<>>
  /\ used = [c \in Calls |-> <<>>]

\* a caller holding matrices
InitMat ==
  /\ objs \in [ObjIds -> MatSet]
  /\ last = NoOp
  /\ nops = 0
  /\ InitSimIdle

Step(c) ==
  \/ Enter(c)
  \/ Build(c)
  \/ Multiply(c)
  \/ Coefficients(c)
  \/ Reflectance(c)
  \/ Warn(c)
  \/ Transmittance(c)
  \/ Absorptance(c)
  \/ PsiDelta(c)

Next == \E c \in Calls : Step(c)

NextMat == \E a \in ObjIds, b \in ObjIds : MatMulAssign(a, b) \/ MatTimes(a, b)

\* simulate: one invocation on any input, or concurrent invocations
Init == InitOne \/ InitConc

Spec == Init /\ [][Next]_vars

SpecMat == InitMat /\ [][NextMat]_vars

\* the inputs of the invocations followed to their end: the degenerate
\* ones, and stacks of every length on an absorbing incident medium
LiveInputs ==
  DegenerateInputs \cup
  { Arguments(C(1, 0), R(12), 0, C(1, -1), Cx(Rat(3, 2), R(0)), ls) :
      ls \in SeqsUpTo(NormalLayers, MaxLayers) }

LiveRequests == { {}, {"transmittance"}, OutNames }

InitLive ==
  /\ InitMatIdle
  /\ \E a \in LiveInputs, p \in LiveRequests :
       /\ args = [c \in Calls |->
                    IF c = 1 THEN a
                    ELSE Arguments(C(1, 0), R(12), 0, one, one, <<>>)]
       /\ ptr = [c \in Calls |-> IF c = 1 THEN p ELSE {}]
  /\ pc = [c \in Calls |-> IF c = 1 THEN "call" ELSE "off"]
  /\ frame = [c \in Calls |-> NoFrame]
  /\ mem = [c \in Calls |-> InitialMem]
  /\ written = [c \in Calls |-> {}]
  /\ stderr = <<>>
  /\ used = [c \in Calls |-> <<>>]

\* a thread that has called simulate keeps executing it: no statement of
\* simulate waits for anything
SpecLive == InitLive /\ [][Next]_vars /\ \A c \in Calls : WF_vars(Step(c))

(***************************************************************************)
(* Properties                                                              *)
(***************************************************************************)
\* the standard product of two 2x2 matrices
Product(A, B) ==
  Matrix22(CAdd(CMul(A.m11, B.m11), CMul(A.m12, B.m21)),
           CAdd(CMul(A.m11, B.m12), CMul(A.m12, B.m22)),
           CAdd(CMul(A.m21, B.m11), CMul(A.m22, B.m21)),
           CAdd(CMul(A.m21, B.m12), CMul(A.m22, B.m22)))

\* I * ms[1] * ... * ms[k], multiplied from the left to the right
RECURSIVE ProductOfFirst(_, _)
ProductOfFirst(ms, k) ==
  IF k = 0 THEN Identity ELSE Product(ProductOfFirst(ms, k - 1), ms[k])

\* the positions of simulate after the loop
AfterLoop == {"refl", "warn", "trans", "absorp", "psi", "done"}

\* the positions of simulate from the first loop test on
Running == {"loop", "mul"} \cup AfterLoop

Requested(c, names) == names \subseteq ptr[c]

Done(c) == pc[c] = "done"

\* C1: when simulate has returned, reflectance has been stored to if and
\* only if its pointer is set, transmittance if and only if the pointers of
\* reflectance and transmittance are set, absorptance if and only if the
\* pointers of reflectance, transmittance and absorptance are set; an
\* output that was not stored to still holds the value it had before the
\* call, and one that was stored to holds a value of the call.
C1_OutputDependencyChain ==
  \A c \in Calls :
    /\ Done(c) =>
         /\ "reflectance" \in written[c] <=> Requested(c, {"reflectance"})
         /\ "transmittance" \in written[c]
              <=> Requested(c, {"reflectance", "transmittance"})
         /\ "absorptance" \in written[c]
              <=> Requested(c, {"reflectance", "transmittance", "absorptance"})
    /\ \A o \in {"reflectance", "transmittance", "absorptance"} :
         o \in written[c] <=> mem[c][o] # InitialMem[o]

\* C1 witness: a call has returned that was asked for absorptance and
\* transmittance but not for reflectance, with all three left as they were
C1_Witness ==
  \E c \in Calls :
    /\ Done(c)
    /\ Requested(c, {"transmittance", "absorptance"})
    /\ "reflectance" \notin ptr[c]
    /\ mem[c].transmittance = InitialMem.transmittance
    /\ mem[c].absorptance = InitialMem.absorptance

\* the matrices of the layers of a, in the order of the sequence
LayerMatrixSeq(a, pol) ==
  [k \in 1..Len(a.layers) |->
     LayerMatrices(a, CMul(a.incidentCosTheta, a.incidentCosTheta),
                   a.layers[k])[pol]]

\* C2: at every point of the loop with i layers multiplied in, each running
\* product is I * M(L0) * ... * M(L(i-1)), the layers multiplied in are
\* 0 .. i-1 in this order, each once; after the loop i is the number of
\* layers, so each product is I * M(L0) * ... * M(L(n-1)).
C2_ProductOrder ==
  \A c \in Calls :
    pc[c] \in Running =>
      LET f == frame[c]
      IN /\ f.productMatrixP =
              ProductOfFirst(LayerMatrixSeq(args[c], "P"), f.i)
         /\ f.productMatrixS =
              ProductOfFirst(LayerMatrixSeq(args[c], "S"), f.i)
         /\ used[c] = [k \in 1..f.i |-> k]
         /\ f.i <= Len(args[c].layers)
         /\ pc[c] \in AfterLoop => f.i = Len(args[c].layers)

\* C2 witness: a call has returned whose two layers have matrices that do
\* not commute
C2_Witness ==
  \E c \in Calls :
    /\ Done(c)
    /\ Len(args[c].layers) = 2
    /\ LET ms == LayerMatrixSeq(args[c], "P")
       IN /\ CIsFinite(ms[1].m12)
          /\ Product(ms[1], ms[2]) # Product(ms[2], ms[1])

\* C3: an in-place product a *= b of two distinct objects leaves in a, and
\* returns, the standard product of the values a and b had before the call
\* and leaves b as it was; a * b returns the standard product and leaves
\* every object of the caller as it was.
C3_StandardProduct ==
  /\ (last.op = "*=" /\ last.a # last.b) =>
        /\ last.ret = Product(last.pre[last.a], last.pre[last.b])
        /\ objs[last.a] = last.ret
        /\ \A o \in ObjIds \ {last.a} : objs[o] = last.pre[o]
  /\ last.op = "*" =>
        /\ last.ret = Product(last.pre[last.a], last.pre[last.b])
        /\ objs = last.pre

\* C3 witness: a *= b has run on two distinct objects whose values do not
\* commute
C3_Witness ==
  /\ last.op = "*="
  /\ last.a # last.b
  /\ Product(last.pre[last.a], last.pre[last.b])
       # Product(last.pre[last.b], last.pre[last.a])

\* C9: for all matrices A, B, C a caller holds, (A*B)*C = A*(B*C), and
\* I*A = A*I = A for the identity I = diag(1, 1).
C9_Monoid ==
  /\ \A x \in ObjIds, y \in ObjIds, z \in ObjIds :
       Times(Times(objs[x], objs[y]), objs[z])
         = Times(objs[x], Times(objs[y], objs[z]))
  /\ \A x \in ObjIds :
       /\ Times(Identity, objs[x]) = objs[x]
       /\ Times(objs[x], Identity) = objs[x]

\* C9 witness: a product has been evaluated by a caller that holds three
\* different matrices, two of which do not commute
C9_Witness ==
  /\ last.op = "*"
  /\ Cardinality({objs[x] : x \in ObjIds}) = 3
  /\ Times(objs[1], objs[2]) # Times(objs[2], objs[1])
  /\ \A x \in ObjIds : objs[x] # Identity

\* C10 as stated: a *= b leaves in a the standard product of the values a
\* and b had before the call for every pair of operands, b being the same
\* object as a included.
C10_InPlaceEqualsPure ==
  last.op = "*=" =>
    /\ last.ret = Product(last.pre[last.a], last.pre[last.b])
    /\ last.ret = Times(last.pre[last.a], last.pre[last.b])

\* (Yinc - Yexit) / (Yinc + Yexit)
BoundaryCoefficient(Yinc, Yexit) == CDiv(CSub(Yinc, Yexit), CAdd(Yinc, Yexit))

ZeroLayers(c) == pc[c] \in AfterLoop /\ Len(args[c].layers) = 0

\* nIncident == nExit and the exit cosine is the incident cosine
Matched(c) ==
  /\ args[c].nIncident = args[c].nExit
  /\ frame[c].exitCosTheta = args[c].incidentCosTheta

\* nIncident = 1.0, nExit = 1.5, normal incidence
AirGlass(c) ==
  /\ args[c].nIncident = C(1, 0)
  /\ args[c].nExit = Cx(Rat(3, 2), R(0))
  /\ args[c].incidentCosTheta = C(1, 0)

\* what C4 says of invocation c once its reflection coefficients are set
ZeroLayerClaim(c) ==
  LET f == frame[c]
  IN /\ used[c] = <<>>
     /\ f.productMatrixP = Identity
     /\ f.productMatrixS = Identity
     /\ f.reflectionCoefficientP
          = BoundaryCoefficient(f.admittanceIncidentP, f.admittanceExitP)
     /\ f.reflectionCoefficientS
          = BoundaryCoefficient(f.admittanceIncidentS, f.admittanceExitS)
     /\ Matched(c) =>
          /\ "reflectance" \in written[c] => mem[c].reflectance = R(0)
          /\ "transmittance" \in written[c] => mem[c].transmittance = R(1)
     /\ AirGlass(c) =>
          /\ CNorm(f.reflectionCoefficientP) = Rat(1, 25)
          /\ CNorm(f.reflectionCoefficientS) = Rat(1, 25)
          /\ "reflectance" \in written[c] => mem[c].reflectance = Rat(1, 25)

\* C4 as stated: for every stack of zero layers the loop body never runs,
\* both products stay the identity, each reflection coefficient is
\* (Yinc - Yexit) / (Yinc + Yexit), matched media give reflectance 0 and
\* transmittance 1, and indices 1.0 and 1.5 at normal incidence give
\* reflectance 0.04 for P and for S.
C4_ZeroLayersAnyInput ==
  \A c \in Calls : ZeroLayers(c) => ZeroLayerClaim(c)

\* C4: the same for every stack of zero layers whose incident index and
\* incident cosine are not zero.
C4_ZeroLayers ==
  \A c \in Calls :
    ( /\ ZeroLayers(c)
      /\ args[c].nIncident # zero
      /\ args[c].incidentCosTheta # zero ) => ZeroLayerClaim(c)

\* C4 witness: a call on no layers, indices 1.0 and 1.5, normal incidence
\* and an angle of polarization of pi/4 has returned with reflectance 1/25
C4_Witness ==
  \E c \in Calls :
    /\ Done(c)
    /\ ZeroLayers(c)
    /\ AirGlass(c)
    /\ args[c].polarization = 1
    /\ mem[c].reflectance = Rat(1, 25)

\* C5: when simulate has returned, psi and delta have both been stored to
\* if the pointers of both are set and neither otherwise, whatever the
\* other three pointers are; one that was not stored to holds the value it
\* had before the call; two invocations with the same arguments that both
\* have the two pointers set store the same psi and the same delta,
\* whatever their pointers of reflectance, transmittance and absorptance.
C5_PsiDeltaPair ==
  /\ \A c \in Calls :
       /\ Done(c) =>
            written[c] \cap {"psi", "delta"} =
              IF Requested(c, {"psi", "delta"}) THEN {"psi", "delta"} ELSE {}
       /\ \A o \in {"psi", "delta"} :
            o \in written[c] <=> mem[c][o] # InitialMem[o]
  /\ \A c \in Calls, d \in Calls :
       ( /\ Done(c) /\ Done(d)
         /\ args[c] = args[d]
         /\ Requested(c, {"psi", "delta"})
         /\ Requested(d, {"psi", "delta"}) ) =>
            /\ mem[c].psi = mem[d].psi
            /\ mem[c].delta = mem[d].delta

\* C5 witness: two calls with the same arguments have returned psi and
\* delta, one asked for nothing else, the other for all five outputs
C5_Witness ==
  \E c \in Calls, d \in Calls :
    /\ Done(c) /\ Done(d)
    /\ args[c] = args[d]
    /\ ptr[c] = {"psi", "delta"}
    /\ ptr[d] = OutNames
    /\ {"psi", "delta"} \subseteq written[c] \cap written[d]

\* the number of warnings invocation c has printed
Warnings(c) == Cardinality({k \in 1..Len(stderr) : stderr[k] = c})

Absorbing(c) == args[c].nIncident.im # R(0)

\* C6 as stated: a call that was asked for transmittance or absorptance
\* with an absorbing incident medium has printed the warning when it
\* returns, and a call with Im(nIncident) = 0 has printed none.
C6_WarnsWheneverRequested ==
  \A c \in Calls :
    Done(c) =>
      /\ ( /\ Absorbing(c)
           /\ ("transmittance" \in ptr[c] \/ "absorptance" \in ptr[c]) )
           => Warnings(c) > 0
      /\ ~Absorbing(c) => Warnings(c) = 0

\* C6: a call has printed the warning, once, when it returns if and only
\* if it was asked for reflectance and transmittance and the incident
\* medium is absorbing; it has then stored reflectance and transmittance;
\* the step that prints changes no output and no local and goes on to the
\* computation of transmittance.
C6_WarningAdvisory ==
  /\ [](\A c \in Calls :
          Done(c) =>
            /\ Warnings(c) =
                 IF Absorbing(c)
                      /\ Requested(c, {"reflectance", "transmittance"})
                 THEN 1 ELSE 0
            /\ Warnings(c) > 0 =>
                 {"reflectance", "transmittance"} \subseteq written[c])
  /\ [][\A c \in Calls :
          (pc[c] = "warn" /\ pc'[c] # "warn") =>
             /\ pc'[c] = "trans"
             /\ mem' = mem /\ written' = written /\ frame' = frame]_vars

\* C6 witness: a call with an absorbing incident medium has printed the
\* warning and returned with reflectance and transmittance stored
C6_Witness ==
  \E c \in Calls :
    /\ Done(c)
    /\ Absorbing(c)
    /\ Warnings(c) = 1
    /\ mem[c].transmittance # InitialMem.transmittance
    /\ IsFinite(mem[c].transmittance)

\* the locals of simulate after the loop when the invocation runs alone
RECURSIVE LoopAlone(_, _)
LoopAlone(f, a) ==
  IF f.i < Len(a.layers)
  THEN LET m == LayerMatrices(a, f.squareIncidentCosTheta, a.layers[f.i + 1])
           g == [f EXCEPT !.layerMatrixP = m.P, !.layerMatrixS = m.S]
           h == MulAssign(MulAssign(g, "productMatrixP", "layerMatrixP"),
                          "productMatrixS", "layerMatrixS")
       IN LoopAlone([h EXCEPT !.i = f.i + 1], a)
  ELSE f

\* the outputs of simulate(a, p) when the invocation runs alone
AloneMem(a, p) ==
  LET f == CoefficientsFrame(LoopAlone(EnterFrame(a), a))
      polP == CosSquared(a.polarization)
      polS == SinSquared(a.polarization)
      g == [f EXCEPT !.polP = polP, !.polS = polS]
      r == "reflectance" \in p
      t == r /\ "transmittance" \in p
      ab == t /\ "absorptance" \in p
      pd == "psi" \in p /\ "delta" \in p
      refl == ReflectanceValue(f, polP, polS)
      trans == TransmittanceValue(g, a)
  IN [ reflectance |-> IF r THEN refl ELSE InitialMem.reflectance,
       transmittance |-> IF t THEN trans ELSE InitialMem.transmittance,
       absorptance |-> IF ab THEN RSub(RSub(R(1), refl), trans)
                       ELSE InitialMem.absorptance,
       psi |-> IF pd THEN Atan2Abs(f.reflectionCoefficientP,
                                   f.reflectionCoefficientS)
               ELSE InitialMem.psi,
       delta |-> IF pd THEN ArgDifference(f.reflectionCoefficientP,
                                          f.reflectionCoefficientS)
                 ELSE InitialMem.delta ]

\* C7: in every interleaving of invocations that have their own arguments
\* and their own output locations, an invocation that has returned has
\* stored what it stores when it runs alone, and a step of an invocation
\* changes the locals, the outputs and the position of no other one.
C7_ThreadSafe ==
  /\ [](\A c \in Calls : Done(c) => mem[c] = AloneMem(args[c], ptr[c]))
  /\ [][\A c \in Calls :
          pc'[c] # pc[c] =>
            \A d \in Calls \ {c} :
              /\ frame'[d] = frame[d]
              /\ mem'[d] = mem[d]
              /\ written'[d] = written[d]
              /\ pc'[d] = pc[d]]_vars

\* C7 witness: two invocations with different arguments are in progress
\* at once, one inside its loop, the other past its stores of reflectance
\* and transmittance
C7_Witness ==
  \E c \in Calls, d \in Calls :
    /\ c # d
    /\ args[c] # args[d]
    /\ pc[c] = "mul"
    /\ pc[d] = "psi"
    /\ {"reflectance", "transmittance"} \subseteq written[d]

\* grazing incidence, a zero incident index, or a zero wavelength with a
\* layer to cross
Degenerate(a) ==
  \/ a.incidentCosTheta = zero
  \/ a.nIncident = zero
  \/ (a.lambda = R(0) /\ Len(a.layers) > 0)

\* C8: every invocation that is called returns; after the loop the body
\* has run once per layer; a degenerate input ends in the results, not in
\* a stop: the call returns with a reflectance that is not finite when
\* reflectance is asked for.
C8_RunsToCompletion ==
  /\ \A c \in Calls : (pc[c] = "call") ~> Done(c)
  /\ [](\A c \in Calls :
          /\ pc[c] \in AfterLoop => Len(used[c]) = Len(args[c].layers)
          /\ (Done(c) /\ Degenerate(args[c]) /\ "reflectance" \in ptr[c])
               => mem[c].reflectance = NonFinite)

\* C8 witness: a call at grazing incidence with a layer has returned, its
\* body run once, its reflectance not finite
C8_Witness ==
  \E c \in Calls :
    /\ Done(c)
    /\ args[c].incidentCosTheta = zero
    /\ used[c] = <<1>>
    /\ mem[c].reflectance = NonFinite

====
